---- MODULE Spec2Model ----
(***************************************************************************)
(* Model of @devteks/progress: the ProgressBar of src/src/ProgressBar.ts   *)
(* and the ProgressStream of src/src/utils.ts.                             *)
(*                                                                         *)
(* JavaScript values are records [t, v]: t is the kind of value and v the  *)
(* integer payload of a finite number.  current, total and remaining count *)
(* units; percent, runtime, speed and eta are results of round(x, 3) and   *)
(* are kept in thousandths (v = 1500 is 1.5).  Strings are sequences of    *)
(* one-character strings.  Time is in milliseconds.                        *)
(***************************************************************************)
EXTENDS Integers, Sequences, FiniteSets, TLC

(***************************************************************************)
(* Bounds of the model.                                                    *)
(***************************************************************************)
MaxTime == 3
MaxDt == 2
MaxCur == 3
MaxCalls == 2
MaxFires == 7
MaxSum == 5

(***************************************************************************)
(* JavaScript values.                                                      *)
(***************************************************************************)
Num(n) == [t |-> "number", v |-> n]
NaN == [t |-> "NaN", v |-> 0]
PosInf == [t |-> "Infinity", v |-> 0]
NegInf == [t |-> "-Infinity", v |-> 0]
Undefined == [t |-> "undefined", v |-> 0]
Null == [t |-> "null", v |-> 0]
Str == [t |-> "string", v |-> 0]

\* x != null
NotNullish(x) == x.t \notin {"undefined", "null"}

\* typeof v === 'number'
TypeofNumber(x) == x.t \in {"number", "NaN", "Infinity", "-Infinity"}

isNumber(x) == TypeofNumber(x) /\ x.t # "NaN"

\* the global isFinite: Number(null) is 0, Number of a non-numeric string is NaN
isFinite(x) == x.t \in {"number", "null"}

\* v < k and v <= k for a JavaScript value v that passed isNumber
JsLess(x, k) == \/ x.t = "-Infinity"
                \/ x.t = "number" /\ x.v < k

JsLeq(x, k) == \/ x.t = "-Infinity"
               \/ x.t = "number" /\ x.v <= k

\* Math.max(a, b), Math.min(a, b) on values that passed isNumber
JsMax(a, b) ==
  IF a.t = "Infinity" \/ b.t = "Infinity" THEN PosInf
  ELSE IF a.t = "-Infinity" THEN b
  ELSE IF b.t = "-Infinity" THEN a
  ELSE IF a.v >= b.v THEN a ELSE b

JsMin(a, b) ==
  IF a.t = "-Infinity" \/ b.t = "-Infinity" THEN NegInf
  ELSE IF a.t = "Infinity" THEN b
  ELSE IF b.t = "Infinity" THEN a
  ELSE IF a.v <= b.v THEN a ELSE b

clamp(x, min, max) ==
  IF isNumber(x)
    THEN LET lo == JsMax(x, min)
         IN IF isNumber(max) THEN JsMin(lo, max) ELSE lo
    ELSE min

\* Math.round(p / q) for integers p, q: the nearest integer, a tie going up.
RoundDiv(p, q) ==
  IF q = 0 THEN (IF p > 0 THEN PosInf ELSE IF p < 0 THEN NegInf ELSE NaN)
  ELSE LET pp == IF q < 0 THEN 0 - p ELSE p
           qq == IF q < 0 THEN 0 - q ELSE q
       IN Num((2 * pp + qq) \div (2 * qq))

(***************************************************************************)
(* Strings.                                                                *)
(***************************************************************************)
Digit(d) == SubSeq("0123456789", d + 1, d + 1)

RECURSIVE NatStr(_)
NatStr(n) == IF n < 10 THEN Digit(n) ELSE NatStr(n \div 10) \o Digit(n % 10)

NonFiniteStr(x) ==
  IF x.t = "Infinity" THEN "Infinity"
  ELSE IF x.t = "-Infinity" THEN "-Infinity"
  ELSE "NaN"

\* the decimals of f / scale without their trailing zeros
RECURSIVE FracStr(_, _)
FracStr(f, scale) ==
  IF f = 0 THEN ""
  ELSE Digit((f * 10) \div scale) \o FracStr((f * 10) % scale, scale)

DecStr(n, scale) ==
  LET a == IF n < 0 THEN 0 - n ELSE n
      f == a % scale
  IN (IF n < 0 THEN "-" ELSE "")
       \o NatStr(a \div scale)
       \o (IF f = 0 THEN "" ELSE "." \o FracStr(f, scale))

\* value.toString() of the number x.v / scale (scale a power of ten)
toString(x, scale) == IF x.t = "number" THEN DecStr(x.v, scale) ELSE NonFiniteStr(x)

\* (x.v / scale).toFixed(1): one decimal, nearest tenth, a tie away from zero
toFixed1(x, scale) ==
  IF x.t # "number" THEN NonFiniteStr(x)
  ELSE LET a == IF x.v < 0 THEN 0 - x.v ELSE x.v
           tenths == (2 * a * 10 + scale) \div (2 * scale)
       IN (IF x.v < 0 THEN "-" ELSE "")
            \o NatStr(tenths \div 10) \o "." \o Digit(tenths % 10)

\* s.indexOf(pat), counted from 1; 0 when pat does not occur
IndexOf(s, pat) ==
  LET hits == {i \in 1..(Len(s) - Len(pat) + 1) : SubSeq(s, i, i + Len(pat) - 1) = pat}
  IN IF hits = {} THEN 0 ELSE CHOOSE i \in hits : \A j \in hits : i <= j

includes(s, pat) == IndexOf(s, pat) # 0

\* s.replace(pat, rep) with a string pattern: the first occurrence only
replace(s, pat, rep) ==
  LET i == IndexOf(s, pat)
  IN IF i = 0 THEN s
     ELSE SubSeq(s, 1, i - 1) \o rep \o SubSeq(s, i + Len(pat), Len(s))

\* Array(n).join(c): n - 1 copies of c (none for n = 0 and n = 1)
RECURSIVE repeat(_, _)
repeat(n, c) == IF n <= 1 THEN "" ELSE c \o repeat(n - 1, c)

\* s.substring(0, k)
substring0(s, k) == IF k <= 0 THEN "" ELSE SubSeq(s, 1, IF k < Len(s) THEN k ELSE Len(s))

\* s.charAt(0) of a non-empty string
getChar(s) == IF Len(s) >= 1 THEN SubSeq(s, 1, 1) ELSE s

(***************************************************************************)
(* Program constants.                                                      *)
(***************************************************************************)
C_COMPLETE == "█"
C_INCOMPLETE == "░"
MIN_WIDTH == 20

(***************************************************************************)
(* Inputs of the model: constructor options, output streams, tick          *)
(* arguments.  An optional string option is a sequence of at most one      *)
(* string, <<>> standing for undefined.                                    *)
(***************************************************************************)
Columns == 24

\* NodeJS.WriteStream as the bar uses it: a terminal, a terminal reporting
\* zero columns, and two destinations that are not terminals (no clearLine),
\* one without a width and one that reports a width all the same.
TTY == [isTTY |-> TRUE, columns |-> Columns, clearLine |-> TRUE]
TTY0 == [isTTY |-> TRUE, columns |-> 0, clearLine |-> TRUE]
NotTTY == [isTTY |-> FALSE, columns |-> 0, clearLine |-> FALSE]
NotTTYWide == [isTTY |-> FALSE, columns |-> Columns, clearLine |-> FALSE]
Streams == {TTY, TTY0, NotTTY, NotTTYWide}

FMT_TOKENS == "{current}: [token1] [token2]"
FMT_TOKEN1 == "{current}: [token1]"
FMT_ETA == "{eta}"
Formats == {<<>>, <<FMT_TOKEN1>>}

\* custom tokens: a sequence of <<name, value>> in insertion order;
\* <<>> stands for undefined as well as for {}
NoTokens == <<>>
TokensHello == << <<"token1", "Hello">>, <<"token2", "World!\n">> >>
\* the tokens a caller supplies: some only when the template names one
TokensGoodbye == << <<"token1", "Goodbye">>, <<"token2", "World!">> >>
TokenInputs(format) ==
  IF includes(format, "[token2]") THEN {NoTokens, TokensHello, TokensGoodbye}
  ELSE IF includes(format, "[token1]") THEN {NoTokens, TokensHello}
  ELSE {NoTokens}

\* what Date.now() returns the first time a tracker reads the clock
Epoch == 1000

InvalidTotals == {Num(0), Num(-5), NaN, PosInf, NegInf, Str}
ValidTotals == {Undefined, Null, Num(1), Num(2), Num(MaxCur)}
InvalidIntervals == {Num(-1), NaN, PosInf, NegInf, Str}
ValidIntervals == {Undefined, Null, Num(0), Num(2)}
TotalInputs == {Num(0), NaN, PosInf, Str, Num(2)}
Lines == {Undefined, Num(0), Num(-1), Str}
CurrentInputs == {Undefined, Num(0)} \cup {Num(k) : k \in 2..MaxCur}

\* the base options; the two glyphs are given, '=' and '-'
BaseBarOptions ==
  [format |-> <<>>, total |-> Num(MaxCur), current |-> Undefined, width |-> Undefined,
   minWidth |-> Undefined, interval |-> Undefined, stream |-> TTY, clear |-> FALSE,
   completeChar |-> <<"=">>, incompleteChar |-> <<"-">>, line |-> Undefined]

\* The option sets explored: every combination of the total, the interval
\* and the stream with the other options at their base value, and each
\* other option varied on the base.
BarOptionSets ==
  {[BaseBarOptions EXCEPT !.total = tot, !.interval = int, !.stream = st] :
      tot \in {Undefined, Num(MaxCur)}, int \in {Undefined, Num(2)}, st \in {TTY, NotTTYWide}}
  \cup {[BaseBarOptions EXCEPT !.stream = st, !.clear = cl] : st \in Streams, cl \in BOOLEAN}
  \cup {[BaseBarOptions EXCEPT !.total = tot] : tot \in InvalidTotals \cup ValidTotals}
  \cup {[BaseBarOptions EXCEPT !.interval = int] : int \in InvalidIntervals \cup ValidIntervals}
  \cup {[BaseBarOptions EXCEPT !.line = ln] : ln \in Lines}
  \cup {[BaseBarOptions EXCEPT !.total = tot, !.interval = int, !.line = ln] :
          tot \in {Num(-5), Num(2)}, int \in {Num(-1), Num(2)}, ln \in {Num(-1), Num(0)}}
  \cup {[BaseBarOptions EXCEPT !.format = f, !.interval = Num(2)] : f \in Formats}
  \cup {[BaseBarOptions EXCEPT !.current = Num(1)]}
  \cup {[BaseBarOptions EXCEPT !.format = <<FMT_TOKENS>>, !.total = Num(100)]}
  \cup {[BaseBarOptions EXCEPT !.width = Num(10), !.minWidth = Num(5)]}
  \cup {[BaseBarOptions EXCEPT !.format = <<FMT_ETA>>, !.total = Num(100)]}

\* ProgressStreamOptions; onProgress and onTotal say whether the callback is given
BaseStreamOptions ==
  [total |-> Undefined, interval |-> Undefined, current |-> Undefined,
   onProgress |-> TRUE, onTotal |-> TRUE]

StreamOptionSets ==
  {[BaseStreamOptions EXCEPT !.total = tot, !.interval = int] :
      tot \in {Undefined, Num(MaxCur)}, int \in {Undefined, Num(2)}}
  \cup {[BaseStreamOptions EXCEPT !.total = tot] : tot \in InvalidTotals \cup ValidTotals}
  \cup {[BaseStreamOptions EXCEPT !.interval = int] : int \in InvalidIntervals \cup ValidIntervals}
  \cup {[BaseStreamOptions EXCEPT !.current = Num(1), !.interval = int] : int \in {Undefined, Num(2)}}
  \cup {[BaseStreamOptions EXCEPT !.onProgress = FALSE, !.onTotal = FALSE]}

\* the chunks written to the stream
Chunks == {"", "a", "bc"}

\* A header object: the content-length and content-encoding headers, each a
\* sequence of at most one string, and its property named "headers".
Headers(cl, ce) == [headers |-> <<>>, contentLength |-> cl, contentEncoding |-> ce]

\* An upstream source: an http.IncomingMessage with a content-length header,
\* one without, an object with a numeric length, and a request object that
\* emits 'response' later.
Source(readable, writable, headers, length) ==
  [readable |-> readable, writable |-> writable, headers |-> headers, length |-> length]

Sources ==
  {Source(TRUE, FALSE, <<Headers(<<cl>>, <<>>)>>, Undefined) : cl \in {"3", "0", "x"}}
  \cup {Source(TRUE, FALSE, <<Headers(<<>>, <<>>)>>, Undefined)}
  \cup {Source(TRUE, FALSE, <<>>, len) : len \in {Num(2), Num(0), NaN}}
  \cup {Source(TRUE, TRUE, <<>>, Undefined)}

\* the argument of a 'response' event
Responses ==
  {[headers |-> <<Headers(<<"3">>, ce)>>] : ce \in {<<>>, <<"gzip">>}}
  \cup {[headers |-> <<>>]}

\* the argument of speedometer(): the window in seconds
SecondsInputs == {Undefined, Num(0), Num(1)}
MeterOptionSets == {[seconds |-> x] : x \in SecondsInputs}

\* the argument of a call of the function speedometer() returns
DeltaInputs == {Undefined, Num(0), Num(1), Num(2)}

\* who may hold a Progress object handed out by a tracker
Observers == {"caller", "onProgress", "listenerA", "listenerB"}

(***************************************************************************)
(* State.                                                                  *)
(***************************************************************************)
VARIABLES
  kind,        \* what is constructed: "bar", "stream" or "meter"
  opts,        \* the options handed to the constructor
  status,      \* "new" before the constructor ran, then "live" or "threw"
  IS_WINDOWS,  \* platform() == 'win32'
  bar,         \* the private fields of the ProgressBar but #progress
  ps,          \* the private fields of the ProgressStream but #progress
  sm,          \* the variables of the closure speedometer() returns, and ret,
               \* the value its last call returned
  heap,        \* Progress objects by identity; heap[0] is #progress
  refs,        \* the Progress object each observer was last handed
  now,         \* the last value Date.now() returned
  out,         \* the operations the last call performed on the output stream
               \* (ProgressBar), or its pushes and notifications (ProgressStream)
  calls,       \* how many times onComplete has been invoked
  err,         \* the message of the error the last call threw, "" if none
  hist         \* history of the calls made so far: nondecr, whether no tick
               \* lowered current; lastPass, when an update last passed the
               \* throttle; gate, what the throttle did with the last update;
               \* seen, the bytes written to the ProgressStream; note, the
               \* snapshot of the last progress notification, <<>> if none;
               \* first, the time of the bar's first tick; had, whether some
               \* tick supplied custom tokens; given, the tokens the last tick
               \* supplied

vars == <<kind, opts, status, IS_WINDOWS, bar, ps, sm, heap, refs, now, out, calls, err, hist>>

\* The values Date.now() may return: Epoch at the first reading (the trackers
\* use nothing but differences of readings), later at most MaxDt more than
\* the reading before.
Clock ==
  IF (kind = "bar" /\ bar.endTime = 0) \/ (kind = "stream" /\ ps.endTime = 0)
    THEN {Epoch}
    ELSE {u \in now..(now + MaxDt) : u <= Epoch + MaxTime}

Coalesce(x, d) == IF NotNullish(x) THEN x ELSE d

Max(a, b) == IF a >= b THEN a ELSE b

\* stream operations, tagged with the method that performed them
CursorTo(x, y, by) == [op |-> "cursorTo", n |-> x, line |-> y, text |-> "", by |-> by]
ClearLine(dir, by) == [op |-> "clearLine", n |-> dir, line |-> Undefined, text |-> "", by |-> by]
Write(text, by) == [op |-> "write", n |-> 0, line |-> Undefined, text |-> text, by |-> by]
\* onComplete(this), the tracker reporting completed (n = 1) or not (n = 0)
OnComplete(completed) ==
  [op |-> "onComplete", n |-> IF completed THEN 1 ELSE 0, line |-> Undefined, text |-> "", by |-> "complete"]

NoRefs == [o \in {} |-> 0]

(***************************************************************************)
(* ProgressBar (src/src/ProgressBar.ts).                                   *)
(***************************************************************************)
\* the validation of the interval and total options
BadInterval(interval) ==
  NotNullish(interval) /\ (~isNumber(interval) \/ ~isFinite(interval) \/ JsLess(interval, 0))

\* the total test with < in place of <=
BadTotalAcceptsZero(total) ==
  NotNullish(total) /\ (~isNumber(total) \/ ~isFinite(total) \/ JsLess(total, 0))

BadTotal(total) ==
  NotNullish(total) /\ (~isNumber(total) \/ ~isFinite(total) \/ JsLeq(total, 0))

BadLine(line) == TypeofNumber(line) /\ JsLess(line, 0)

BarInitialProgress(o) ==
  [percent |-> Num(0), current |-> Coalesce(o.current, Num(0)), total |-> Coalesce(o.total, Num(0)),
   remaining |-> Num(0), eta |-> Num(0), runtime |-> Num(0), speed |-> Num(0)]

BarFields(o) ==
  LET format == IF o.format = <<>> THEN "{bar} {percent}" ELSE o.format[1]
  IN [tokens |-> NoTokens,
      lastDraw |-> "",
      completed |-> FALSE,
      format |-> IF includes(format, "{bar}") THEN format ELSE "{bar} " \o format,
      width |-> o.width,
      minWidth |-> clamp(o.minWidth, Num(MIN_WIDTH), Undefined).v,
      stream |-> o.stream,
      clear |-> o.clear,
      completeChar |-> IF o.completeChar = <<>> THEN C_COMPLETE ELSE getChar(o.completeChar[1]),
      incompleteChar |-> IF o.incompleteChar = <<>> THEN C_INCOMPLETE ELSE getChar(o.incompleteChar[1]),
      line |-> IF TypeofNumber(o.line) THEN o.line ELSE Undefined,
      interval |-> clamp(o.interval, Num(0), Undefined).v,
      total |-> o.total,
      prevTime |-> Undefined,
      startTime |-> 0,
      endTime |-> 0]

NoBar == BarFields(BaseBarOptions)

BarConstructorError(o) ==
  IF BadInterval(o.interval) THEN "interval must be a number >= 0"
  ELSE IF BadTotal(o.total) THEN "total must be a number > 0"
  ELSE IF BadLine(o.line) THEN "line must be >= 0"
  ELSE ""

\* new ProgressBar(opts)
constructor ==
  /\ kind = "bar"
  /\ status = "new"
  /\ LET e == BarConstructorError(opts)
     IN /\ err' = e
        /\ status' = IF e = "" THEN "live" ELSE "threw"
        /\ bar' = IF e = "" THEN BarFields(opts) ELSE bar
        /\ heap' = IF e = "" THEN (0 :> BarInitialProgress(opts)) ELSE heap
  /\ out' = <<>>
  /\ UNCHANGED <<sm, kind, opts, IS_WINDOWS, ps, refs, now, calls, hist>>

\* a snapshot whose runtime is measured from time 0
updateSinceZero(p, total, startTime, endTime) ==
  LET current == p.current.v
      ms == endTime
      p1 == [p EXCEPT !.runtime = Num(ms)]
  IN IF TypeofNumber(total)
       THEN LET remaining == total.v - current
                p2 == [p1 EXCEPT !.percent = IF total.t = "number" THEN RoundDiv(current * 100 * 1000, total.v) ELSE NaN,
                                 !.remaining = IF total.t = "number" THEN Num(remaining) ELSE total]
            IN IF ms > 0
                 THEN [p2 EXCEPT !.speed = RoundDiv(current * 1000 * 1000, ms),
                                 !.eta = IF total.t = "number" THEN RoundDiv(remaining * ms, current) ELSE NaN]
                 ELSE p2
       ELSE p1

\* #update: the snapshot recomputed from current, #total and the two times
update(p, total, startTime, endTime) ==
  LET current == p.current.v
      ms == endTime - startTime
      p1 == [p EXCEPT !.runtime = Num(ms)]
  IN IF TypeofNumber(total)
       THEN LET remaining == total.v - current
                p2 == [p1 EXCEPT !.percent = IF total.t = "number" THEN RoundDiv(current * 100 * 1000, total.v) ELSE NaN,
                                 !.remaining = IF total.t = "number" THEN Num(remaining) ELSE total]
            IN IF ms > 0
                 THEN [p2 EXCEPT !.speed = RoundDiv(current * 1000 * 1000, ms),
                                 !.eta = IF total.t = "number" THEN RoundDiv(remaining * ms, current) ELSE NaN]
                 ELSE p2
       ELSE p1

\* the test that ends #update: current >= this.#progress.total
reachedTotal(p) == p.total.t = "number" /\ p.current.v >= p.total.v

RECURSIVE replaceTokens(_, _)
replaceTokens(output, tokens) ==
  IF tokens = <<>> THEN output
  ELSE replaceTokens(replace(output, "[" \o tokens[1][1] \o "]", tokens[1][2]), Tail(tokens))

\* the template with the built-in and the custom tokens replaced
replaceAll(b, p) ==
  LET o1 == replace(b.format, "{current}", toString(p.current, 1))
      o2 == replace(o1, "{total}", toString(p.total, 1))
      o3 == replace(o2, "{elapsed}", toFixed1(p.runtime, 1000))
      o4 == replace(o3, "{eta}", toFixed1(p.eta, 1000 * 1000))
      o5 == replace(o4, "{percent}", toFixed1(p.percent, 1000) \o "%")
      o6 == replace(o5, "{speed}",
                    toString(IF p.speed.t = "number" THEN RoundDiv(p.speed.v, 10) ELSE p.speed, 100))
  IN replaceTokens(o6, b.tokens)

\* the columns left for the bar beside a text of the given length
availableSpace(columns, length, isWindows) ==
  LET space == Max(0, columns - length)
  IN IF isWindows /\ space >= 1 THEN space - 1 ELSE space

\* the width of the bar: #width between #minWidth and the space available
barWidth(b, space) ==
  LET minWidth == IF b.minWidth > space THEN space ELSE b.minWidth
  IN clamp(Coalesce(b.width, PosInf), Num(minWidth), Num(space)).v

\* Math.floor(width * ratio)
completeLengthFloor(width, p) ==
  IF p.total.v = 0 THEN 0 ELSE (width * p.current.v) \div p.total.v

\* Math.round(width * ratio)
completeLength(width, p) ==
  IF p.total.v = 0 THEN 0 ELSE RoundDiv(width * p.current.v, p.total.v).v

\* complete + incomplete
barText(b, width, len) ==
  LET incomplete == repeat(Max(0, width - len + 1), b.incompleteChar)
      complete == repeat(Max(0, len + 1), b.completeChar)
  IN (IF len > 0 THEN SubSeq(complete, 1, Len(complete) - 1) \o b.completeChar ELSE complete)
       \o incomplete

\* the text with the bar put in place, or cut to the columns when there is no room
layout(b, p, isWindows, output, nonbarContent) ==
  LET columns == b.stream.columns
  IN IF columns > Len(nonbarContent)
       THEN LET width == barWidth(b, availableSpace(columns, Len(nonbarContent), isWindows))
            IN replace(output, "{bar}", barText(b, width, completeLength(width, p)))
       ELSE IF columns = Len(nonbarContent) THEN nonbarContent
            ELSE substring0(nonbarContent, columns - 1)

\* the frame #render formats
frame(b, p, isWindows) ==
  LET output == replaceAll(b, p)
  IN layout(b, p, isWindows, output, replace(output, "{bar}", ""))

\* #render without the test of isTTY
renderOffTerminal(b, p, isWindows) ==
  LET output == frame(b, p, isWindows)
  IN IF b.lastDraw # output
       THEN [ops |-> <<CursorTo(0, b.line, "render"), Write(output, "render"), ClearLine(1, "render")>>,
             lastDraw |-> output]
       ELSE [ops |-> <<>>, lastDraw |-> b.lastDraw]

\* #render: the stream operations and the frame remembered as last drawn
render(b, p, isWindows) ==
  IF ~b.stream.isTTY THEN [ops |-> <<>>, lastDraw |-> b.lastDraw]
  ELSE LET output == frame(b, p, isWindows)
       IN IF b.lastDraw # output
            THEN [ops |-> <<CursorTo(0, b.line, "render"), Write(output, "render"), ClearLine(1, "render")>>,
                  lastDraw |-> output]
            ELSE [ops |-> <<>>, lastDraw |-> b.lastDraw]

\* #complete with the callback invoked before the stream is touched
completeCallbackFirst(b) ==
  IF ~b.completed THEN [ops |-> <<>>, calls |-> 0]
  ELSE [ops |-> <<OnComplete(b.completed)>> \o
                (IF b.clear
                   THEN (IF b.stream.clearLine
                           THEN <<ClearLine(-1, "complete"), CursorTo(0, b.line, "complete")>>
                           ELSE <<>>)
                   ELSE <<Write("\n", "complete")>>),
        calls |-> 1]

\* #complete: the operations on the stream, then the call of onComplete,
\* and the number of onComplete calls
complete(b) ==
  IF ~b.completed THEN [ops |-> <<>>, calls |-> 0]
  ELSE [ops |-> (IF b.clear
                   THEN (IF b.stream.clearLine
                           THEN <<ClearLine(-1, "complete"), CursorTo(0, b.line, "complete")>>
                           ELSE <<>>)
                   ELSE <<Write("\n", "complete")>>)
                \o <<OnComplete(b.completed)>>,
        calls |-> 1]

\* a throttle that lets every tick pass
passesAlways(diff, interval) == diff >= 0

\* the throttle of tick: diff >= this.#interval
passes(diff, interval) == diff >= interval

\* a flag that follows the test of the last update
completedNow(completed, p) == reachedTotal(p)

\* #completed after #update: set when the test holds, never reset
completedAfter(completed, p) == completed \/ reachedTotal(p)

\* tokens kept from earlier ticks when a tick supplies none
mergeTokens(tokens, customTokens) == IF customTokens = NoTokens THEN tokens ELSE customTokens

\* this.#tokens = customTokens
setTokens(tokens, customTokens) == customTokens

\* bar.tick(current, customTokens), Date.now() returning t
tick(current, customTokens, t) ==
  /\ kind = "bar"
  /\ status = "live"
  /\ refs = NoRefs
  /\ calls < MaxCalls
  /\ LET first == bar.prevTime.t = "undefined"
         startTime == IF first THEN t ELSE bar.startTime
         prevTime == IF first THEN t ELSE bar.prevTime.v
         p == update([heap[0] EXCEPT !.current = Coalesce(current, Num(1))], bar.total, startTime, t)
         pass == passes(t - prevTime, bar.interval)
         b1 == [bar EXCEPT !.tokens = setTokens(bar.tokens, customTokens), !.endTime = t, !.startTime = startTime,
                           !.prevTime = Num(IF pass THEN t ELSE prevTime),
                           !.completed = completedAfter(bar.completed, p)]
         r == render(b1, p, IS_WINDOWS)
         c == complete(b1)
     IN /\ now' = t
        /\ heap' = (0 :> p)
        /\ bar' = IF pass THEN [b1 EXCEPT !.lastDraw = r.lastDraw] ELSE b1
        /\ out' = IF pass THEN r.ops \o c.ops ELSE <<>>
        /\ calls' = IF pass THEN calls + c.calls ELSE calls
        /\ hist' = [hist EXCEPT !.nondecr = hist.nondecr /\ (~first => p.current.v >= heap[0].current.v),
                                !.lastPass = IF pass THEN Num(t) ELSE hist.lastPass,
                                !.gate = IF pass THEN "passed" ELSE "throttled",
                                !.first = IF hist.first.t = "undefined" THEN Num(t) ELSE hist.first,
                                !.had = hist.had \/ customTokens # NoTokens,
                                !.given = customTokens]
  /\ err' = ""
  /\ UNCHANGED <<sm, kind, opts, status, IS_WINDOWS, ps, refs>>

\* a setter validation that forgets the sign of the value
totalInvalidIgnoresSign(v) == ~isNumber(v) \/ ~isFinite(v)

\* the validation of the total setter
totalInvalid(v) == ~isNumber(v) \/ ~isFinite(v) \/ JsLeq(v, 0)

\* bar.total = v
setTotal(v) ==
  /\ kind = "bar"
  /\ status = "live"
  /\ refs = NoRefs
  /\ IF totalInvalid(v)
       THEN /\ err' = "total value must be a finite positive number"
            /\ UNCHANGED <<bar, heap>>
       ELSE /\ err' = ""
            /\ bar' = [bar EXCEPT !.total = v]
            /\ heap' = (0 :> [heap[0] EXCEPT !.total = v])
  /\ out' = <<>>
  /\ refs' = NoRefs
  /\ UNCHANGED <<sm, kind, opts, status, IS_WINDOWS, ps, now, calls, hist>>

\* bar.interrupt(message)
interrupt(message) ==
  /\ kind = "bar"
  /\ status = "live"
  /\ refs = NoRefs
  /\ IF bar.stream.clearLine
       THEN /\ out' = <<ClearLine(0, "interrupt"), CursorTo(0, bar.line, "interrupt"),
                        Write(message, "interrupt"), Write("\n", "interrupt"),
                        Write(bar.lastDraw, "interrupt")>>
            /\ err' = ""
       ELSE /\ out' = <<>>
            /\ err' = "this.#stream.clearLine is not a function"
  /\ heap' = (0 :> heap[0])
  /\ refs' = NoRefs
  /\ UNCHANGED <<sm, kind, opts, status, IS_WINDOWS, bar, ps, now, calls, hist>>

(***************************************************************************)
(* ProgressStream (src/src/utils.ts).                                      *)
(***************************************************************************)
Push(chunk) == [op |-> "push", n |-> Len(chunk), line |-> Undefined, text |-> chunk, by |-> "_transform"]
PushNull == [op |-> "push null", n |-> 0, line |-> Undefined, text |-> "", by |-> "_flush"]
Callback(by) == [op |-> "callback", n |-> 0, line |-> Undefined, text |-> "", by |-> by]
\* emit('total', v) and onTotal(v); onProgress(object id) and emit('progress', object id)
Emit(ev, v) == [op |-> ev, n |-> v, line |-> Undefined, text |-> "", by |-> "emit"]

IsDigit(c) == includes("0123456789", c)
DigitValue(c) == IndexOf("0123456789", c) - 1

\* the value of the longest prefix of s made of digits, acc being the value so far
RECURSIVE ParseDigits(_, _)
ParseDigits(s, acc) ==
  IF s = "" \/ ~IsDigit(SubSeq(s, 1, 1)) THEN acc
  ELSE ParseDigits(SubSeq(s, 2, Len(s)), acc * 10 + DigitValue(SubSeq(s, 1, 1)))

\* parseInt(s, 10): an optional sign and the leading digits; NaN without a digit
parseInt(s) ==
  LET neg == s # "" /\ SubSeq(s, 1, 1) = "-"
      body == IF s # "" /\ SubSeq(s, 1, 1) \in {"-", "+"} THEN SubSeq(s, 2, Len(s)) ELSE s
  IN IF body = "" \/ ~IsDigit(SubSeq(body, 1, 1)) THEN NaN
     ELSE Num(IF neg THEN 0 - ParseDigits(body, 0) ELSE ParseDigits(body, 0))

\* getContentLength(source): source.headers['content-length'] parsed, if positive
getContentLength(source) ==
  IF source.headers # <<>>
       /\ source.headers[1].contentLength # <<>>
       /\ source.headers[1].contentLength[1] # ""
    THEN LET n == parseInt(source.headers[1].contentLength[1])
         IN IF isNumber(n) /\ ~JsLeq(n, 0) THEN n ELSE Undefined
    ELSE Undefined

StreamInitialProgress(o) ==
  [percent |-> Num(0), current |-> Coalesce(o.current, Num(0)), total |-> Coalesce(o.total, Num(0)),
   remaining |-> Coalesce(o.total, Num(0)), eta |-> Num(0), runtime |-> Num(0), speed |-> Num(0)]

\* interval || 0
StreamInterval(interval) == IF interval.t = "number" /\ interval.v # 0 THEN interval.v ELSE 0

StreamFields(o) ==
  [interval |-> StreamInterval(o.interval),
   prevTime |-> Undefined,
   startTime |-> 0,
   endTime |-> 0,
   total |-> o.total,
   onProgress |-> o.onProgress,
   onTotal |-> o.onTotal,
   pipeListener |-> ~NotNullish(o.total),
   responseListener |-> FALSE,
   piped |-> FALSE,
   ended |-> FALSE]

NoStream == StreamFields(BaseStreamOptions)

StreamConstructorError(o) ==
  IF BadInterval(o.interval) THEN "interval must be a number >= 0"
  ELSE IF BadTotal(o.total) THEN "total must be a number > 0"
  ELSE ""

\* new ProgressStream(opts)
streamConstructor ==
  /\ kind = "stream"
  /\ status = "new"
  /\ LET e == StreamConstructorError(opts)
     IN /\ err' = e
        /\ status' = IF e = "" THEN "live" ELSE "threw"
        /\ ps' = IF e = "" THEN StreamFields(opts) ELSE ps
        /\ heap' = IF e = "" THEN (0 :> StreamInitialProgress(opts)) ELSE heap
  /\ out' = <<>>
  /\ UNCHANGED <<sm, kind, opts, IS_WINDOWS, bar, refs, now, calls, hist>>

\* the validation of the total setter
streamTotalInvalid(v) == ~isNumber(v) \/ ~isFinite(v) \/ JsLeq(v, 0)

\* a setter that assigns #total and leaves #progress.total as it was
streamTotalSetStale(s, p, v) ==
  IF streamTotalInvalid(v)
    THEN [err |-> "total value must be a finite positive number", ps |-> s, progress |-> p, ops |-> <<>>]
    ELSE [err |-> "", ps |-> [s EXCEPT !.total = v], progress |-> p,
          ops |-> <<Emit("total", v.v)>> \o (IF s.onTotal THEN <<Emit("onTotal", v.v)>> ELSE <<>>)]

\* the total setter: the error it throws ("" if none), the fields and the
\* snapshot after it, and its notifications
streamTotalSet(s, p, v) ==
  IF streamTotalInvalid(v)
    THEN [err |-> "total value must be a finite positive number", ps |-> s, progress |-> p, ops |-> <<>>]
    ELSE [err |-> "", ps |-> [s EXCEPT !.total = v], progress |-> [p EXCEPT !.total = v],
          ops |-> <<Emit("total", v.v)>> \o (IF s.onTotal THEN <<Emit("onTotal", v.v)>> ELSE <<>>)]

\* ProgressStream #update
streamUpdate(p, total, startTime, endTime) ==
  LET current == p.current.v
      ms == endTime - startTime
      p1 == [p EXCEPT !.runtime = Num(ms)]
  IN IF TypeofNumber(total)
       THEN LET remaining == total.v - current
                p2 == [p1 EXCEPT !.percent = IF total.t = "number" THEN RoundDiv(current * 100 * 1000, total.v) ELSE NaN,
                                 !.remaining = IF total.t = "number" THEN Num(remaining) ELSE total]
            IN IF ms > 0
                 THEN [p2 EXCEPT !.speed = RoundDiv(current * 1000 * 1000, ms),
                                 !.eta = IF total.t = "number" THEN RoundDiv(remaining * ms, current) ELSE NaN]
                 ELSE p2
       ELSE p1

\* a getter that returns #progress itself
progressGetterNoCopy(h, id) == [ref |-> 0, heap |-> h]

\* get progress(): {...this.#progress}, a new object (of identity id) with the
\* fields of #progress; the object returned and the heap holding it
progressGetter(h, id) == [ref |-> id, heap |-> (id :> h[0]) @@ h]

\* #emit: onProgress is handed one object and every 'progress' listener the
\* one object that emit('progress', ...) was called with
emit(s, h) ==
  LET a == IF s.onProgress THEN progressGetter(h, 2) ELSE [ref |-> 0, heap |-> h]
      b == progressGetter(a.heap, 3)
  IN [heap |-> b.heap,
      refs |-> (IF s.onProgress THEN ("onProgress" :> a.ref) ELSE NoRefs)
                 @@ ("listenerA" :> b.ref) @@ ("listenerB" :> b.ref),
      ops |-> (IF s.onProgress THEN <<Emit("onProgress", a.ref)>> ELSE <<>>)
                \o <<Emit("progress", b.ref)>>]

\* stream.total = v
setStreamTotal(v) ==
  /\ kind = "stream"
  /\ status = "live"
  /\ refs = NoRefs
  /\ LET r == streamTotalSet(ps, heap[0], v)
     IN /\ err' = r.err
        /\ ps' = r.ps
        /\ heap' = (0 :> r.progress)
        /\ out' = r.ops
  /\ refs' = NoRefs
  /\ UNCHANGED <<sm, kind, opts, status, IS_WINDOWS, bar, now, calls, hist>>

\* the throttle of _transform: diff >= this.#interval
streamPasses(diff, interval) == diff >= interval

\* a counter of chunks in place of a counter of bytes
advanceByOne(current, chunk) == Num(current.v + 1)

\* this.#progress.current += chunk.length
advance(current, chunk) == Num(current.v + Len(chunk))

\* _transform(chunk, encoding, callback), Date.now() returning t
transform(chunk, t) ==
  /\ kind = "stream"
  /\ status = "live"
  /\ refs = NoRefs
  /\ ~ps.ended
  /\ heap[0].current.v + Len(chunk) <= MaxCur
  /\ LET first == ps.prevTime.t = "undefined"
         startTime == IF first THEN t ELSE ps.startTime
         prevTime == IF first THEN t ELSE ps.prevTime.v
         p == streamUpdate([heap[0] EXCEPT !.current = advance(heap[0].current, chunk)],
                           ps.total, startTime, t)
         pass == streamPasses(t - prevTime, ps.interval)
         e == emit(ps, (0 :> p))
     IN /\ ps' = [ps EXCEPT !.endTime = t, !.startTime = startTime,
                            !.prevTime = Num(IF pass THEN t ELSE prevTime)]
        /\ heap' = IF pass THEN e.heap ELSE (0 :> p)
        /\ refs' = IF pass THEN e.refs ELSE NoRefs
        /\ out' = <<Push(chunk), Callback("_transform")>> \o (IF pass THEN e.ops ELSE <<>>)
        /\ hist' = [hist EXCEPT !.lastPass = IF pass THEN Num(t) ELSE hist.lastPass,
                                !.gate = IF pass THEN "passed" ELSE "throttled",
                                !.seen = hist.seen + Len(chunk),
                                !.note = IF pass THEN <<p>> ELSE hist.note]
  /\ now' = t
  /\ err' = ""
  /\ UNCHANGED <<sm, kind, opts, status, IS_WINDOWS, bar, calls>>

\* _flush(callback), Date.now() returning t
flush(t) ==
  /\ kind = "stream"
  /\ status = "live"
  /\ refs = NoRefs
  /\ ~ps.ended
  /\ LET s1 == [ps EXCEPT !.endTime = t, !.ended = TRUE]
         r == streamTotalSet(s1, heap[0], heap[0].current)
         p == streamUpdate(r.progress, r.ps.total, s1.startTime, t)
         e == emit(r.ps, (0 :> p))
     IN /\ IF ps.interval > 0
             THEN IF r.err # ""
                    THEN /\ ps' = s1
                         /\ heap' = (0 :> heap[0])
                         /\ refs' = NoRefs
                         /\ out' = <<PushNull, Callback("_flush")>>
                         /\ err' = r.err
                    ELSE /\ ps' = r.ps
                         /\ heap' = e.heap
                         /\ refs' = e.refs
                         /\ out' = <<PushNull, Callback("_flush")>> \o r.ops \o e.ops
                         /\ err' = ""
             ELSE /\ ps' = s1
                  /\ heap' = (0 :> heap[0])
                  /\ refs' = NoRefs
                  /\ out' = <<PushNull, Callback("_flush")>>
                  /\ err' = ""
        /\ hist' = [hist EXCEPT !.note = IF ps.interval > 0 /\ r.err = "" THEN <<p>> ELSE hist.note]
  /\ now' = t
  /\ UNCHANGED <<sm, kind, opts, status, IS_WINDOWS, bar, calls>>

\* source.pipe(stream): the 'pipe' listener the constructor registered
pipe(source) ==
  /\ kind = "stream"
  /\ status = "live"
  /\ refs = NoRefs
  /\ ~ps.piped
  /\ ~ps.ended
  /\ LET len == getContentLength(source)
         viaHeader == source.readable /\ ~source.writable /\ source.headers # <<>> /\ NotNullish(len)
         viaLength == ~viaHeader /\ TypeofNumber(source.length)
         r == streamTotalSet(ps, heap[0], IF viaHeader THEN len ELSE source.length)
     IN IF ps.pipeListener /\ (viaHeader \/ viaLength)
          THEN /\ ps' = [r.ps EXCEPT !.piped = TRUE]
               /\ heap' = (0 :> r.progress)
               /\ out' = r.ops
               /\ err' = r.err
          ELSE /\ ps' = [ps EXCEPT !.piped = TRUE, !.responseListener = ps.pipeListener]
               /\ heap' = (0 :> heap[0])
               /\ out' = <<>>
               /\ err' = ""
  /\ refs' = NoRefs
  /\ UNCHANGED <<sm, kind, opts, status, IS_WINDOWS, bar, now, calls, hist>>

\* the upstream source emits 'response': the listener the 'pipe' listener registered
response(res) ==
  /\ kind = "stream"
  /\ status = "live"
  /\ refs = NoRefs
  /\ ps.responseListener
  /\ LET len == IF res.headers = <<>> THEN Undefined ELSE getContentLength(res.headers[1])
         set == /\ res.headers # <<>>
                /\ res.headers[1].contentEncoding # <<"gzip">>
                /\ NotNullish(len)
         r == streamTotalSet(ps, heap[0], len)
     IN /\ ps' = IF set THEN r.ps ELSE ps
        /\ heap' = (0 :> IF set THEN r.progress ELSE heap[0])
        /\ out' = IF set THEN r.ops ELSE <<>>
        /\ err' = IF set THEN r.err ELSE ""
  /\ refs' = NoRefs
  /\ UNCHANGED <<sm, kind, opts, status, IS_WINDOWS, bar, now, calls, hist>>

(***************************************************************************)
(* The observers of both trackers.                                         *)
(***************************************************************************)
\* tracker.progress read by a caller
getProgress ==
  /\ kind \in {"bar", "stream"}
  /\ status = "live"
  /\ "caller" \notin DOMAIN refs
  /\ LET g == progressGetter(heap, 1)
     IN /\ heap' = g.heap
        /\ refs' = ("caller" :> g.ref) @@ refs
  /\ UNCHANGED <<sm, kind, opts, status, IS_WINDOWS, bar, ps, now, out, calls, err, hist>>

\* an observer assigns a field of the Progress object it was handed
mutate(o, field, v) ==
  /\ status = "live"
  /\ o \in DOMAIN refs
  /\ heap[refs[o]][field] # v
  /\ heap' = [heap EXCEPT ![refs[o]][field] = v]
  /\ UNCHANGED <<sm, kind, opts, status, IS_WINDOWS, bar, ps, refs, now, out, calls, err, hist>>

\* the observers let go of the objects they were handed
release ==
  /\ refs # NoRefs
  /\ refs' = NoRefs
  /\ heap' = (0 :> heap[0])
  /\ UNCHANGED <<sm, kind, opts, status, IS_WINDOWS, bar, ps, now, out, calls, err, hist>>

(***************************************************************************)
(* speedometer (src/src/utils.ts).                                         *)
(***************************************************************************)
MAX_TICK == 65535
RESOLUTION == 4

RECURSIVE Gcd(_, _)
Gcd(a, b) == IF b = 0 THEN a ELSE Gcd(b, a % b)

\* the number n / d (n >= 0, d > 0) in lowest terms
Rat(n, d) == LET g == Gcd(n, d) IN [n |-> n \div g, d |-> d \div g]

\* x & MAX_TICK
Mask(x) == x % (MAX_TICK + 1)

\* the variables of the closure right after speedometer(seconds); buffer is
\* the array (element i of the array is buffer[i + 1])
MeterFields(seconds) ==
  LET s == IF seconds.t = "number" /\ seconds.v # 0 THEN seconds.v ELSE 5
  IN [size |-> RESOLUTION * s,
      buffer |-> <<0>>,
      pointer |-> 1,
      tick |-> 1,
      last |-> Mask(1 - 1),
      lastSpeed |-> Rat(0, 1),
      ended |-> FALSE,
      timer |-> TRUE,
      fires |-> 0,
      ret |-> Rat(0, 1),
      idle |-> 0,
      run |-> [n |-> 0, d |-> 0],
      elapsed |-> 0,
      recorded |-> FALSE,
      sum |-> 0]

NoMeter == [MeterFields(Undefined) EXCEPT !.timer = FALSE]

\* speedometer(seconds)
speedometer ==
  /\ kind = "meter"
  /\ status = "new"
  /\ status' = "live"
  /\ sm' = MeterFields(opts.seconds)
  /\ UNCHANGED <<kind, opts, IS_WINDOWS, bar, ps, heap, refs, now, out, calls, err, hist>>

\* the callback of setInterval: tick = (tick + 1) & MAX_TICK, while the
\* timer has not been cleared
timer ==
  /\ kind = "meter"
  /\ status = "live"
  /\ sm.timer
  /\ sm.fires < MaxFires
  /\ sm' = [sm EXCEPT !.tick = Mask(sm.tick + 1), !.fires = sm.fires + 1,
                       !.idle = IF sm.idle < 2 THEN sm.idle + 1 ELSE 2,
                       !.elapsed = sm.elapsed + 1]
  /\ UNCHANGED <<kind, opts, status, IS_WINDOWS, bar, ps, heap, refs, now, out, calls, err, hist>>

\* the numbers of firings of a long pause: one short of a full turn of the
\* 16-bit counter, and a full turn
LongPauses == {MAX_TICK, MAX_TICK + 1}

\* n firings of the timer in a row, no call between them: tick is
\* incremented and masked n times; the last firings of a run
timerN(n) ==
  /\ kind = "meter"
  /\ status = "live"
  /\ sm.timer
  /\ sm.fires < MaxFires
  /\ sm.elapsed = 0
  /\ sm' = [sm EXCEPT !.tick = Mask(sm.tick + n), !.fires = MaxFires,
                       !.idle = 2, !.elapsed = sm.elapsed + n]
  /\ UNCHANGED <<kind, opts, status, IS_WINDOWS, bar, ps, heap, refs, now, out, calls, err, hist>>

\* end(): the variables after it
end(m) == [m EXCEPT !.ended = TRUE, !.timer = FALSE, !.buffer = <<>>]

\* the loop while (dist--): the buffer and the pointer after it
RECURSIVE advanceSlots(_, _, _, _)
advanceSlots(buffer, pointer, dist, size) ==
  IF dist = 0 THEN [buffer |-> buffer, pointer |-> pointer]
  ELSE LET p == IF pointer = size THEN 0 ELSE pointer
           v == buffer[(IF p = 0 THEN size - 1 ELSE p - 1) + 1]
           b == IF p + 1 <= Len(buffer) THEN [buffer EXCEPT ![p + 1] = v] ELSE Append(buffer, v)
       IN advanceSlots(b, p + 1, dist - 1, size)

\* a rate per slot of the buffer, not per second
ratePerSlot(buffer, pointer, size) ==
  LET top == buffer[(pointer - 1) + 1]
      btm == IF Len(buffer) < size THEN 0 ELSE buffer[(IF pointer = size THEN 0 ELSE pointer) + 1]
  IN IF Len(buffer) < RESOLUTION THEN Rat(top, 1) ELSE Rat(top - btm, Len(buffer))

\* the newest value itself until the buffer is full
rateWhenFull(buffer, pointer, size) ==
  LET top == buffer[(pointer - 1) + 1]
      btm == IF Len(buffer) < size THEN 0 ELSE buffer[(IF pointer = size THEN 0 ELSE pointer) + 1]
  IN IF Len(buffer) < size THEN Rat(top, 1) ELSE Rat((top - btm) * RESOLUTION, Len(buffer))

\* the rate of a buffer whose newest slot is at pointer - 1
rate(buffer, pointer, size) ==
  LET top == buffer[(pointer - 1) + 1]
      btm == IF Len(buffer) < size THEN 0 ELSE buffer[(IF pointer = size THEN 0 ELSE pointer) + 1]
  IN IF Len(buffer) < RESOLUTION THEN Rat(top, 1) ELSE Rat((top - btm) * RESOLUTION, Len(buffer))

\* a call after the end that computes a rate all the same
recordAfterEnd(m, delta) ==
  IF ~NotNullish(delta) THEN [end(m) EXCEPT !.ret = m.lastSpeed]
  ELSE LET b == IF m.buffer = <<>> THEN <<0>> ELSE m.buffer
           b1 == [b EXCEPT ![Len(b)] = b[Len(b)] + delta.v]
       IN [m EXCEPT !.buffer = b1, !.lastSpeed = Rat(b1[Len(b1)], 1), !.ret = Rat(b1[Len(b1)], 1)]

\* each slot holding the amount of its own tick, not a running total
recordPerSlot(m, delta) ==
  IF m.ended THEN [m EXCEPT !.ret = m.lastSpeed]
  ELSE IF ~NotNullish(delta) THEN [end(m) EXCEPT !.ret = m.lastSpeed]
  ELSE LET d == Mask(m.tick - m.last)
           dist == IF d > m.size THEN m.size ELSE d
           a == advanceSlots(m.buffer, m.pointer, dist, m.size)
           buffer == IF delta.v # 0
                       THEN [a.buffer EXCEPT ![a.pointer] = delta.v]
                       ELSE a.buffer
           r == rate(buffer, a.pointer, m.size)
       IN [m EXCEPT !.last = m.tick, !.buffer = buffer, !.pointer = a.pointer,
                    !.lastSpeed = r, !.ret = r, !.idle = 0, !.elapsed = 0, !.recorded = TRUE,
                    !.sum = m.sum + delta.v,
                    !.run = IF m.idle # 1 THEN [n |-> 0, d |-> 0]
                            ELSE IF m.run.n > 0 /\ m.run.d = delta.v
                                   THEN [n |-> IF m.run.n < m.size THEN m.run.n + 1 ELSE m.size, d |-> delta.v]
                                   ELSE [n |-> 1, d |-> delta.v]]

\* speed(delta): the variables after the call, ret the value returned
record(m, delta) ==
  IF m.ended THEN [m EXCEPT !.ret = m.lastSpeed]
  ELSE IF ~NotNullish(delta) THEN [end(m) EXCEPT !.ret = m.lastSpeed]
  ELSE LET d == Mask(m.tick - m.last)
           dist == IF d > m.size THEN m.size ELSE d
           a == advanceSlots(m.buffer, m.pointer, dist, m.size)
           buffer == IF delta.v # 0
                       THEN [a.buffer EXCEPT ![a.pointer] = a.buffer[a.pointer] + delta.v]
                       ELSE a.buffer
           r == rate(buffer, a.pointer, m.size)
       IN [m EXCEPT !.last = m.tick, !.buffer = buffer, !.pointer = a.pointer,
                    !.lastSpeed = r, !.ret = r, !.idle = 0, !.elapsed = 0, !.recorded = TRUE,
                    !.sum = m.sum + delta.v,
                    !.run = IF m.idle # 1 THEN [n |-> 0, d |-> 0]
                            ELSE IF m.run.n > 0 /\ m.run.d = delta.v
                                   THEN [n |-> IF m.run.n < m.size THEN m.run.n + 1 ELSE m.size, d |-> delta.v]
                                   ELSE [n |-> 1, d |-> delta.v]]

\* a call of the function speedometer() returned
speed(delta) ==
  /\ kind = "meter"
  /\ status = "live"
  /\ NotNullish(delta) /\ ~sm.ended => sm.buffer[sm.pointer] + delta.v <= MaxSum
  /\ sm' = record(sm, delta)
  /\ UNCHANGED <<kind, opts, status, IS_WINDOWS, bar, ps, heap, refs, now, out, calls, err, hist>>

Init ==
  /\ kind \in {"bar", "stream", "meter"}
  /\ opts \in (CASE kind = "bar" -> BarOptionSets
                 [] kind = "stream" -> StreamOptionSets
                 [] kind = "meter" -> MeterOptionSets)
  /\ status = "new"
  /\ IS_WINDOWS \in (IF kind = "bar" /\ opts = BaseBarOptions THEN BOOLEAN ELSE {FALSE})
  /\ bar = NoBar
  /\ ps = NoStream
  /\ sm = NoMeter
  /\ heap = (0 :> BarInitialProgress(BaseBarOptions))
  /\ refs = NoRefs
  /\ now = Epoch
  /\ out = <<>>
  /\ calls = 0
  /\ err = ""
  /\ hist = [nondecr |-> TRUE, lastPass |-> Undefined, gate |-> "none", seen |-> 0, note |-> <<>>,
             first |-> Undefined, had |-> FALSE, given |-> NoTokens]

Next ==
  \/ constructor
  \/ \E current \in CurrentInputs, customTokens \in TokenInputs(bar.format), t \in Clock :
       tick(current, customTokens, t)
  \/ \E v \in TotalInputs : setTotal(v)
  \/ interrupt("msg")
  \/ streamConstructor
  \/ \E v \in TotalInputs : setStreamTotal(v)
  \/ \E chunk \in Chunks, t \in Clock : transform(chunk, t)
  \/ \E t \in Clock : flush(t)
  \/ \E source \in Sources : pipe(source)
  \/ \E res \in Responses : response(res)
  \/ getProgress
  \/ release
  \/ \E o \in Observers : mutate(o, "current", Num(MaxCur + 1))
  \/ speedometer
  \/ timer
  \/ \E n \in LongPauses : timerN(n)
  \/ \E delta \in DeltaInputs : speed(delta)

Spec == Init /\ [][Next]_vars
(***************************************************************************)
(* Properties.                                                             *)
(***************************************************************************)
BarLive == kind = "bar" /\ status = "live"
StreamLive == kind = "stream" /\ status = "live"
Ticked == bar.prevTime.t = "number"

\* C1: for a total > 0 given to the constructor and ticks whose current
\* values never decrease and end at current == total, onComplete has been
\* invoked exactly once.
C1_CompletedExactlyOnce ==
  (/\ BarLive
   /\ bar.total.t = "number" /\ bar.total = opts.total
   /\ Ticked
   /\ hist.nondecr
   /\ heap[0].current = bar.total)
  => calls = 1

\* C2: over any run of ticks the completion side-effect (the newline or the
\* line clear, then onComplete) is performed at most once.
C2_CompletionAtMostOnce == BarLive => calls <= 1

\* C3: while total is unset no tick makes completed true or triggers the
\* completion side-effect.
C3_NoCompletionWithoutTotal ==
  (BarLive /\ ~TypeofNumber(bar.total)) => (~bar.completed /\ calls = 0)

\* the operations of out that notify an observer of progress
Notifications(ops) == {i \in DOMAIN ops : ops[i].op \in {"onProgress", "progress"}}

\* C4: a tick or a chunk arriving less than `interval` ms after the last
\* update that passed the throttle performs no stream operation, no
\* completion side-effect and no progress notification, and still updates
\* current, the custom tokens and the snapshot.
C4_ThrottledUpdateIsSilent ==
  [][/\ (BarLive /\ hist.lastPass.t = "number") =>
        \A current \in CurrentInputs, customTokens \in TokenInputs(bar.format), t \in Clock :
          (/\ t - hist.lastPass.v < bar.interval
           /\ tick(current, customTokens, t))
          => /\ out' = <<>>
             /\ calls' = calls
             /\ bar'.lastDraw = bar.lastDraw
             /\ hist'.lastPass = hist.lastPass
             /\ heap'[0].current = Coalesce(current, Num(1))
             /\ bar'.tokens = customTokens
             /\ heap'[0].runtime = Num(t - bar.startTime)
     /\ (StreamLive /\ hist.lastPass.t = "number") =>
        \A chunk \in Chunks, t \in Clock :
          (/\ t - hist.lastPass.v < ps.interval
           /\ transform(chunk, t))
          => /\ Notifications(out') = {}
             /\ refs' = NoRefs
             /\ hist'.lastPass = hist.lastPass
             /\ heap'[0].current = Num(heap[0].current.v + Len(chunk))
             /\ heap'[0].runtime = Num(t - ps.startTime)]_vars

\* a tick arrived after the last update that passed, within the interval,
\* moved current and drew nothing
C4_Witness ==
  /\ BarLive
  /\ hist.lastPass.t = "number"
  /\ hist.gate = "throttled"
  /\ bar.endTime > hist.lastPass.v
  /\ bar.endTime - hist.lastPass.v < bar.interval
  /\ heap[0].current = Num(MaxCur)
  /\ out = <<>>

\* C5: tick() without a value advances current by one.
C5_TickAdvancesByOne ==
  [][\A customTokens \in TokenInputs(bar.format), t \in Clock :
        tick(Undefined, customTokens, t) => heap'[0].current = Num(heap[0].current.v + 1)]_vars

\* the option values the constructors must reject
RejectedTotal(x) == x.t \notin {"undefined", "null"} /\ ~(x.t = "number" /\ x.v > 0)
RejectedInterval(x) == x.t \notin {"undefined", "null"} /\ ~(x.t = "number" /\ x.v >= 0)
RejectedLine(x) == x.t = "-Infinity" \/ (x.t = "number" /\ x.v < 0)
RejectedOptions ==
  \/ RejectedTotal(opts.total)
  \/ RejectedInterval(opts.interval)
  \/ kind = "bar" /\ RejectedLine(opts.line)

\* C6: a constructor throws exactly when total is given and is not a finite
\* number > 0, interval is given and is not a finite number >= 0, or
\* (ProgressBar) line is a number < 0; when it throws no tracker exists.
C6_ConstructorValidates ==
  kind \in {"bar", "stream"} /\ status # "new" =>
    /\ status = "threw" <=> RejectedOptions
    /\ status = "threw" => (err # "" /\ bar = NoBar /\ ps = NoStream /\ out = <<>> /\ calls = 0)

\* the scenario of the specification: total = -5
C6_Witness == status = "threw" /\ kind = "bar" /\ opts.total = Num(-5) /\ opts.line = Undefined

TotalIsValid(x) == x.t \in {"undefined", "null"} \/ (x.t = "number" /\ x.v > 0)

\* C7: total is always unset or a finite number > 0, and assigning an
\* invalid value to total throws and changes nothing of the tracker.
C7_TotalStaysValid ==
  /\ [](BarLive => (TotalIsValid(bar.total) /\ heap[0].total.t = "number" /\ heap[0].total.v >= 0))
  /\ [](StreamLive => (TotalIsValid(ps.total) /\ heap[0].total.t = "number" /\ heap[0].total.v >= 0))
  /\ [][\A v \in TotalInputs :
          /\ (setTotal(v) /\ ~(v.t = "number" /\ v.v > 0))
               => (err' # "" /\ bar' = bar /\ heap' = heap /\ out' = <<>> /\ calls' = calls)
          /\ (setStreamTotal(v) /\ ~(v.t = "number" /\ v.v > 0))
               => (err' # "" /\ ps' = ps /\ heap' = heap /\ out' = <<>>)]_vars

\* an assignment to the total of a ticked bar was refused
C7_Witness ==
  /\ BarLive
  /\ Ticked
  /\ err = "total value must be a finite positive number"
  /\ bar.total = Num(MaxCur)

\* C8 as claimed: an observer mutating the snapshot it was handed changes
\* neither #progress nor the snapshot of any other observer.
C8_SnapshotsIndependent ==
  [][\A o \in Observers :
        mutate(o, "current", Num(MaxCur + 1))
          => /\ heap'[0] = heap[0]
             /\ \A q \in (DOMAIN refs) \ {o} : heap'[refs[q]] = heap[refs[q]]]_vars

SameEmission(o, q) == {o, q} = {"listenerA", "listenerB"}

\* C8 as amended: the mutation changes neither #progress nor the object of
\* another observer, except that the listeners of one 'progress' emission
\* hold the same object.
C8_SnapshotsAreCopies ==
  [][\A o \in Observers :
        mutate(o, "current", Num(MaxCur + 1))
          => /\ heap'[0] = heap[0]
             /\ \A q \in (DOMAIN refs) \ {o} :
                  /\ ~SameEmission(o, q) => heap'[refs[q]] = heap[refs[q]]
                  /\ SameEmission(o, q) => heap'[refs[q]] = heap'[refs[o]]]_vars

\* onProgress mutated its snapshot next to those of a caller and of a listener
C8_Witness ==
  /\ StreamLive
  /\ DOMAIN refs = Observers
  /\ heap[refs["onProgress"]].current = Num(MaxCur + 1)
  /\ heap[refs["caller"]].current = heap[0].current
  /\ heap[refs["listenerA"]].current = heap[0].current
  /\ heap[0].current # Num(MaxCur + 1)

\* a tick passed the throttle on a terminal that shows a frame and formatted
\* that frame again
Redrawn == /\ bar.stream.isTTY
           /\ bar.lastDraw # ""
           /\ hist'.gate = "passed"
           /\ frame(bar', heap'[0], IS_WINDOWS) = bar.lastDraw

\* C9: a tick that passes the throttle and formats the frame last drawn
\* performs no operation on the stream, whether the bar is running or
\* completed.
C9_SameFrameNoOperation ==
  [][\A current \in CurrentInputs, customTokens \in TokenInputs(bar.format), t \in Clock :
        (tick(current, customTokens, t) /\ Redrawn) => out' = <<>>]_vars

\* C10: when the destination is not a terminal no frame is ever written and
\* the last drawn frame stays empty.
C10_NoFrameOffTerminal ==
  (BarLive /\ ~bar.stream.isTTY)
  => /\ bar.lastDraw = ""
     /\ \A i \in DOMAIN out :
          /\ out[i].by # "render"
          /\ out[i].op \notin {"cursorTo", "clearLine"}
          /\ out[i].op = "write" => out[i].text = "\n"

\* a run from current = 0 to current = total off a terminal
C10_Witness ==
  /\ BarLive
  /\ ~bar.stream.isTTY
  /\ hist.gate = "passed"
  /\ hist.nondecr
  /\ bar.completed
  /\ heap[0].current = bar.total
  /\ calls = 1

\* the destination is not a terminal, or a terminal reporting zero columns
Degraded == ~bar.stream.isTTY \/ bar.stream.columns = 0

\* C11: on a degraded terminal every tick, the one that reaches completion
\* included, performs no operation on the stream and throws no error.
C11_DegradedTickSilent ==
  [][\A current \in CurrentInputs, customTokens \in TokenInputs(bar.format), t \in Clock :
        (Degraded /\ tick(current, customTokens, t)) => (out' = <<>> /\ err' = "")]_vars

\* the default of the interval option as the documentation of the option gives it
DocumentedInterval == 16

\* the operations of ops that draw a frame
Draws(ops) == {i \in DOMAIN ops : ops[i].by = "render"}

\* C12: a bar constructed without an interval redraws at most once in 16 ms:
\* a tick less than 16 ms after a tick that drew a frame draws none.
C12_DefaultIntervalThrottles ==
  [][\A current \in CurrentInputs, customTokens \in TokenInputs(bar.format), t \in Clock :
        (/\ kind = "bar"
         /\ opts.interval.t \in {"undefined", "null"}
         /\ Draws(out) # {}
         /\ t - now < DocumentedInterval
         /\ tick(current, customTokens, t))
        => Draws(out') = {}]_vars

\* the operations of ops that push data downstream
Pushes(ops) == {i \in DOMAIN ops : ops[i].op = "push"}

\* C13: every chunk written is pushed downstream unchanged, once and in the
\* call that received it, and after each chunk current is the initial
\* current plus the lengths of all chunks seen, throttled or not.
C13_ChunksForwardedAndCounted ==
  /\ [](StreamLive => heap[0].current = Num(Coalesce(opts.current, Num(0)).v + hist.seen))
  /\ [][\A chunk \in Chunks, t \in Clock :
          transform(chunk, t)
            => /\ Pushes(out') = {1}
               /\ out'[1].text = chunk
               /\ heap'[0].current = Num(heap[0].current.v + Len(chunk))]_vars

\* two chunks went through a stream that started at current 1, the last one under the throttle
C13_Witness ==
  /\ StreamLive
  /\ opts.current = Num(1)
  /\ hist.seen = MaxCur - 1
  /\ hist.gate = "throttled"
  /\ Pushes(out) = {1}
  /\ out[1].text = "a"

\* the last progress notification showed the terminal state
TerminalNote ==
  /\ hist.note # <<>>
  /\ hist.note[1].current = hist.note[1].total
  /\ hist.note[1].percent = Num(100 * 1000)

\* C14 as claimed: for every interval >= 0, once end-of-data has been
\* processed after some bytes, the last progress notification has
\* current == total and percent == 100.
C14_LastNoteTerminal ==
  (StreamLive /\ ps.ended /\ hist.seen > 0) => TerminalNote

\* C14 as amended: for every interval > 0 and a final current > 0, once
\* end-of-data has been processed the last progress notification has
\* current == total and percent == 100.
C14_LastNoteTerminalWhenThrottling ==
  (StreamLive /\ ps.ended /\ ps.interval > 0 /\ heap[0].current.v > 0) => TerminalNote

\* a throttling stream that never learnt its total ended after MaxCur bytes
\* with a last chunk that was throttled
C14_Witness ==
  /\ StreamLive
  /\ ps.ended
  /\ ps.interval > 0
  /\ opts.total = Undefined
  /\ ~ps.piped
  /\ hist.seen = MaxCur
  /\ hist.gate = "throttled"
  /\ TerminalNote
  /\ hist.note[1].current = Num(MaxCur)

\* C15: when the upstream emits 'response' with a positive content-length
\* and no gzip content-encoding, total becomes that length and the 'total'
\* notification fires; with gzip content-encoding total stays as it was.
C15_TotalFromResponse ==
  [][\A res \in Responses :
        (/\ response(res)
         /\ res.headers # <<>>
         /\ res.headers[1].contentLength = <<"3">>)
        => IF res.headers[1].contentEncoding = <<"gzip">>
             THEN ps'.total = ps.total /\ out' = <<>>
             ELSE /\ ps'.total = Num(3)
                  /\ heap'[0].total = Num(3)
                  /\ \E i \in DOMAIN out' : out'[i] = Emit("total", 3)]_vars

MeterLive == kind = "meter" /\ status = "live"

\* C16: after one call without a delta every later call, with or without a
\* delta, returns the last rate computed before it and changes neither that
\* rate nor the tick counter, and the timer no longer fires.
C16_FrozenAfterEnd ==
  /\ [](MeterLive /\ sm.ended => ~sm.timer)
  /\ [][\A delta \in DeltaInputs :
          (speed(delta) /\ (sm.ended \/ ~NotNullish(delta)))
            => /\ sm'.ended
               /\ sm'.ret = sm.lastSpeed
               /\ sm'.lastSpeed = sm.lastSpeed
               /\ sm'.tick = sm.tick]_vars
  /\ [][(MeterLive /\ sm.ended) => (sm'.tick = sm.tick /\ sm'.lastSpeed = sm.lastSpeed)]_vars

\* an ended speedometer with a rate other than 0 was called with a delta
C16_Witness ==
  /\ MeterLive
  /\ sm.ended
  /\ sm.lastSpeed # Rat(0, 1)
  /\ sm.ret = sm.lastSpeed
  /\ sm.fires > 0

\* C17: the runtime of the bar's snapshot never decreases from one step to
\* the next; before any tick and at the first tick it is 0, and after every
\* tick, throttled or not, it is the time of the most recent tick minus the
\* time of the first one.
C17_RuntimeSinceFirstTick ==
  /\ [](BarLive => heap[0].runtime = (IF hist.first.t = "undefined" THEN Num(0)
                                                                   ELSE Num(now - hist.first.v)))
  /\ [][BarLive => heap'[0].runtime.v >= heap[0].runtime.v]_vars

\* a throttled tick arrived some time after the first one
C17_Witness ==
  /\ BarLive
  /\ hist.first.t = "number"
  /\ hist.gate = "throttled"
  /\ now > hist.first.v
  /\ heap[0].runtime = Num(now - hist.first.v)

\* the total of the live tracker is unset
TotalUnset ==
  \/ BarLive /\ ~TypeofNumber(bar.total)
  \/ StreamLive /\ ~TypeofNumber(ps.total)

\* C18: while total is unset the snapshot of either tracker has percent,
\* remaining and eta 0, and its speed is current / runtime as soon as
\* runtime > 0.
C18_SpeedWithoutTotal ==
  TotalUnset =>
    /\ heap[0].percent = Num(0)
    /\ heap[0].remaining = Num(0)
    /\ heap[0].eta = Num(0)
    /\ heap[0].runtime.v > 0 => heap[0].speed = RoundDiv(heap[0].current.v * 1000 * 1000, heap[0].runtime.v)

\* C19: in every snapshot of a live tracker a speed of 0 comes with an eta
\* of 0; the eta is never infinite or undefined.
C19_EtaGuarded ==
  BarLive \/ StreamLive =>
    /\ heap[0].speed = Num(0) => heap[0].eta = Num(0)
    /\ heap[0].eta.t = "number"

\* the bar of the README's custom-token example on a terminal, after a tick
\* that drew a frame
TokenExampleDrawn ==
  /\ BarLive
  /\ opts.format = <<FMT_TOKENS>>
  /\ opts.total = Num(100)
  /\ bar.stream.isTTY
  /\ bar.stream.columns > 0
  /\ Draws(out) # {}

\* C20: with total 100 and the template "{current}: [token1] [token2]" on a
\* terminal, tick(1, {token1: "Hello", token2: "World!\n"}) writes exactly
\* the frame "1: Hello World!\n" and a following tick(3, {token1: "Goodbye",
\* token2: "World!"}) writes exactly the frame "3: Goodbye World!".
C20_TokenFrames ==
  TokenExampleDrawn =>
    /\ heap[0].current = Num(1) /\ bar.tokens = TokensHello
         => \A i \in Draws(out) : out[i].op = "write" => out[i].text = "1: Hello World!\n"
    /\ heap[0].current = Num(3) /\ bar.tokens = TokensGoodbye
         => \A i \in Draws(out) : out[i].op = "write" => out[i].text = "3: Goodbye World!"

\* the texts the last call wrote while rendering
Frames == {out[i].text : i \in {j \in Draws(out) : out[j].op = "write"}}

\* C21: the custom tokens are replaced wholesale on every tick: a frame
\* rendered by a tick without custom tokens keeps every [name] placeholder of
\* the template, whatever tokens earlier ticks supplied, and a frame rendered
\* by a tick with tokens shows none of the values of another tick.
C21_TokensReplacedWholesale ==
  BarLive /\ includes(bar.format, "[token1]") =>
    \A text \in Frames :
      /\ hist.given = NoTokens =>
            /\ includes(text, "[token1]")
            /\ includes(bar.format, "[token2]") => includes(text, "[token2]")
      /\ hist.given # TokensHello => ~includes(text, "Hello")
      /\ hist.given # TokensGoodbye => ~includes(text, "Goodbye")

\* a tick without tokens drew a frame after a tick with tokens
C21_Witness ==
  /\ BarLive
  /\ hist.had
  /\ hist.given = NoTokens
  /\ includes(bar.format, "[token2]")
  /\ Frames # {}
  /\ \A text \in Frames : includes(text, "[token1]")

\* C22: interrupt(message) clears the bar's line, moves the cursor to column
\* 0 of the bar's line, writes the message, a newline and the stored last
\* frame, in this order and nothing else, and changes nothing of the tracker.
C22_InterruptSequence ==
  [][interrupt("msg") =>
       /\ out' = <<ClearLine(0, "interrupt"), CursorTo(0, bar.line, "interrupt"),
                   Write("msg", "interrupt"), Write("\n", "interrupt"),
                   Write(bar.lastDraw, "interrupt")>>
       /\ err' = ""
       /\ bar' = bar
       /\ heap'[0] = heap[0]
       /\ calls' = calls]_vars

\* the speedometer has just recorded the same delta on each of the last
\* `size` timer ticks, once per tick
SteadyRun == MeterLive /\ ~sm.ended /\ sm.idle = 0 /\ sm.run.n >= sm.size

\* C23: a delta d recorded on each of `size` consecutive timer ticks, i.e.
\* N = size * d units over the window of size / RESOLUTION seconds, yields a
\* rate r with |r - N / seconds| <= (N / seconds) / size; N / seconds is
\* RESOLUTION * d, and r is the fraction sm.ret.n / sm.ret.d.
C23_SteadyRate ==
  SteadyRun =>
    LET want == RESOLUTION * sm.run.d
        diff == sm.ret.n - want * sm.ret.d
    IN (IF diff < 0 THEN 0 - diff ELSE diff) * sm.size <= want * sm.ret.d

\* such a run of a delta other than 0 happened
C23_Witness == SteadyRun /\ sm.run.d > 0 /\ sm.ret # Rat(0, 1)

\* C24: once the bar is completed it stays completed, whatever ticks and
\* total assignments follow.
C24_CompletedIsTerminal == [][BarLive /\ bar.completed => bar'.completed]_vars

\* a completed bar whose total was raised above current
C24_Witness ==
  /\ BarLive
  /\ bar.completed
  /\ opts.total = Num(1)
  /\ bar.total = Num(2)
  /\ heap[0].current.v < bar.total.v

\* the last call invoked onComplete
CompletionFired == BarLive /\ \E i \in DOMAIN out : out[i].op = "onComplete"

\* what #render did in the last call: nothing, or the three operations that
\* draw the frame now stored as last drawn
RenderedFirst(ops) ==
  \/ ops = <<>>
  \/ ops = <<CursorTo(0, bar.line, "render"), Write(bar.lastDraw, "render"), ClearLine(1, "render")>>

\* out is a rendering, then the operations fin, then onComplete
CompletionOrder(fin) ==
  /\ Len(out) >= Len(fin) + 1
  /\ RenderedFirst(SubSeq(out, 1, Len(out) - Len(fin) - 1))
  /\ SubSeq(out, Len(out) - Len(fin), Len(out) - 1) = fin
  /\ out[Len(out)] = OnComplete(TRUE)
  /\ bar.completed

LineCleared == <<ClearLine(-1, "complete"), CursorTo(0, bar.line, "complete")>>
NewlineWritten == <<Write("\n", "complete")>>

\* C25: on a tick whose completion side-effect fires the final frame is
\* rendered first (if it differs from the last one), then the line is
\* cleared (clear = true) or one newline is written (clear = false), never
\* both, and then onComplete is invoked with the tracker, which reports
\* completed.
C25_CompletionOrder ==
  CompletionFired => CompletionOrder(IF bar.clear THEN LineCleared ELSE NewlineWritten)

\* C25 as the code has it: with clear = true the line is cleared only on a
\* stream that has clearLine; on another stream nothing is done before
\* onComplete.
C25_CompletionOrderGuarded ==
  CompletionFired =>
    CompletionOrder(IF bar.clear THEN (IF bar.stream.clearLine THEN LineCleared ELSE <<>>)
                                 ELSE NewlineWritten)

\* a completing tick drew its frame, cleared the line and called onComplete
C25_Witness ==
  /\ CompletionFired
  /\ bar.clear
  /\ Len(out) = 6
  /\ out[2].op = "write" /\ out[2].text = bar.lastDraw

\* C26: in every state of the bar, completed is true exactly when the
\* completion side-effect has fired; it is never true after a tick whose
\* side-effect the throttle suppressed.
C26_CompletedIffFired == BarLive => (bar.completed <=> calls > 0)

\* C27: whenever the bar's total is set, its snapshot has
\* percent == round(current / total * 100, 3) and remaining == total - current,
\* after the construction and after every tick and total assignment.
C27_SnapshotConsistent ==
  BarLive /\ bar.total.t = "number" =>
    /\ heap[0].total = bar.total
    /\ heap[0].percent = RoundDiv(heap[0].current.v * 100 * 1000, bar.total.v)
    /\ heap[0].remaining = Num(bar.total.v - heap[0].current.v)

\* the text of the frame last formatted, without the bar
NonbarContent == replace(replaceAll(bar, heap[0]), "{bar}", "")

\* C28: every frame written is at most as long as the terminal has columns,
\* and its bar has at most as many glyphs as the space available beside the
\* other content, for every current a caller supplies.
C28_FrameFitsColumns ==
  BarLive =>
    \A text \in Frames :
      /\ Len(text) <= bar.stream.columns
      /\ bar.stream.columns > Len(NonbarContent)
           => Len(text) - Len(NonbarContent)
                <= availableSpace(bar.stream.columns, Len(NonbarContent), IS_WINDOWS)

\* n copies of the glyph c
RECURSIVE Glyphs(_, _)
Glyphs(n, c) == IF n <= 0 THEN "" ELSE c \o Glyphs(n - 1, c)

\* the width of the bar in the frame last formatted
BarWidth ==
  barWidth(bar, availableSpace(bar.stream.columns, Len(NonbarContent), IS_WINDOWS))

\* round(W * current / total), 0 while total is unset
Fill ==
  IF heap[0].total.v = 0 THEN 0
  ELSE (2 * BarWidth * heap[0].current.v + heap[0].total.v) \div (2 * heap[0].total.v)

\* a frame was drawn with room for the bar and 0 <= current <= total, or
\* with total unset
InRange ==
  /\ BarLive
  /\ Frames # {}
  /\ bar.stream.columns > Len(NonbarContent)
  /\ heap[0].current.v >= 0
  /\ bar.total.t = "number" => heap[0].current.v <= bar.total.v

\* C29: for 0 <= current <= total and a bar of width W the bar drawn is
\* fill = round(W * current / total) complete glyphs followed by W - fill
\* incomplete glyphs, and fill is 0 while total is unset.
C29_BarFill ==
  InRange =>
    \A text \in Frames :
      text = Glyphs(Fill, bar.completeChar) \o Glyphs(BarWidth - Fill, bar.incompleteChar)
               \o NonbarContent

\* a bar partly filled, its fill a tie rounded up
C29_Witness ==
  /\ InRange
  /\ Fill > 0
  /\ Fill < BarWidth
  /\ 2 * BarWidth * heap[0].current.v = (2 * Fill - 1) * heap[0].total.v

\* C30: with an explicit width W and a minWidth m, m <= W <= the space
\* available, the bar drawn is exactly W cells wide, for all positive m and
\* W, values below 20 included.
C30_ExplicitWidth ==
  (/\ InRange
   /\ opts.width.t = "number" /\ opts.minWidth.t = "number"
   /\ 0 < opts.minWidth.v /\ opts.minWidth.v <= opts.width.v
   /\ opts.width.v <= availableSpace(bar.stream.columns, Len(NonbarContent), IS_WINDOWS))
  => \A text \in Frames : Len(text) - Len(NonbarContent) = opts.width.v

\* C31: on a terminal, with interval > 0, the first tick after the
\* construction draws a frame.
C31_FirstTickDraws ==
  [][(/\ BarLive
      /\ hist.first.t = "undefined"
      /\ bar.interval > 0
      /\ bar.stream.isTTY /\ bar.stream.columns > 0)
     => \A current \in CurrentInputs, customTokens \in TokenInputs(bar.format), t \in Clock :
          tick(current, customTokens, t) => Draws(out') # {}]_vars

\* the operations of ops that notify an observer of the total
TotalNotifications(ops) == {i \in DOMAIN ops : ops[i].op \in {"total", "onTotal"}}

\* C32: at end-of-data, when the notification of the final chunk was
\* delivered, _flush leaves total unchanged and emits no further 'total' or
\* 'progress' notification.
C32_FlushOnlyAfterThrottle ==
  [][(StreamLive /\ hist.gate = "passed")
     => \A t \in Clock :
          flush(t) => /\ ps'.total = ps.total
                      /\ TotalNotifications(out') = {}
                      /\ Notifications(out') = {}]_vars

\* C33: end-of-data processing never raises an error, whatever the interval
\* and the chunks written, none or empty ones included.
C33_FlushNeverThrows == [][\A t \in Clock : flush(t) => err' = ""]_vars

\* the length an upstream source exposes at attachment: a positive
\* content-length header of a readable, non-writable source, else a numeric
\* length
ExposedLength(source) ==
  IF source.readable /\ ~source.writable /\ source.headers # <<>> /\ NotNullish(getContentLength(source))
    THEN getContentLength(source)
    ELSE IF TypeofNumber(source.length) THEN source.length ELSE Undefined

\* C34: a stream constructed without total, attached to a source exposing a
\* positive content-length header or a numeric length, sets total to that
\* length, emitting 'total' and then calling onTotal, once, with no progress
\* notification before them; a stream constructed with a total keeps it.
C34_TotalAtAttachment ==
  [][StreamLive
     => \A source \in Sources :
          pipe(source)
          => IF opts.total.t \in {"undefined", "null"}
               THEN NotNullish(ExposedLength(source))
                    => /\ err' = ""
                       /\ ps'.total = ExposedLength(source)
                       /\ out' = <<Emit("total", ExposedLength(source).v)>>
                                 \o (IF ps.onTotal THEN <<Emit("onTotal", ExposedLength(source).v)>> ELSE <<>>)
               ELSE ps'.total = ps.total /\ out' = <<>>]_vars

\* the buffer and the pointer of the meter after n slots were advanced
Advanced(n) == advanceSlots(sm.buffer, sm.pointer, n, sm.size)

\* C35: a call after the first advances min(ticks elapsed since the
\* previous call, size) slots of the ring buffer, for any number of elapsed
\* ticks, a wrap of the 16-bit tick counter included.
C35_SlotsAdvanced ==
  [][(MeterLive /\ ~sm.ended /\ sm.recorded)
     => \A delta \in DeltaInputs :
          (NotNullish(delta) /\ speed(delta))
          => LET a == Advanced(IF sm.elapsed < sm.size THEN sm.elapsed ELSE sm.size)
             IN /\ sm'.pointer = a.pointer
                /\ Len(sm'.buffer) = Len(a.buffer)
                /\ \A i \in DOMAIN a.buffer :
                     sm'.buffer[i] = a.buffer[i] + (IF i = a.pointer THEN delta.v ELSE 0)]_vars

\* the meter has computed a rate and has not been ended
Metered == MeterLive /\ ~sm.ended /\ sm.recorded
SlotsFilled == Len(sm.buffer)
Newest == sm.buffer[sm.pointer]
\* the slot after the newest one, the oldest of a full buffer
OldestInWindow == sm.buffer[(IF sm.pointer = sm.size THEN 0 ELSE sm.pointer) + 1]

\* C36 as stated: the rate returned is (newest - oldest-in-window) *
\* RESOLUTION / slotsFilled when the buffer is full, and the newest
\* cumulative value itself for every call made while it is not yet full.
C36_RateOnlyWhenFull ==
  Metered =>
    sm.ret = IF SlotsFilled = sm.size
               THEN Rat((Newest - OldestInWindow) * RESOLUTION, SlotsFilled)
               ELSE Rat(Newest, 1)

\* C36 (amended): the rate returned is the newest cumulative value itself
\* while fewer than RESOLUTION slots are filled, and (newest -
\* oldest-in-window) * RESOLUTION / slotsFilled from then on, where the
\* oldest-in-window value counts as 0 until the buffer is full.
C36_RateAfterResolution ==
  Metered =>
    sm.ret = IF SlotsFilled < RESOLUTION
               THEN Rat(Newest, 1)
               ELSE Rat((Newest - (IF SlotsFilled < sm.size THEN 0 ELSE OldestInWindow)) * RESOLUTION,
                        SlotsFilled)

C36_Witness ==
  /\ Metered
  /\ RESOLUTION < SlotsFilled /\ SlotsFilled < sm.size
  /\ Newest > 0
  /\ sm.ret = Rat(Newest * RESOLUTION, SlotsFilled)

\* slot k of the ring, counted from the slot after the newest one (k = 1)
\* round to the newest one (k = SlotsFilled)
RingSlot(k) == sm.buffer[((sm.pointer + k - 1) % SlotsFilled) + 1]

\* C37: before termination the buffer holds at most size slots, the pointer
\* is within 1..size, the slots hold running totals (never decreasing from
\* the oldest to the newest), and the newest slot is the sum of all deltas
\* recorded so far.
C37_RingBuffer ==
  (MeterLive /\ ~sm.ended) =>
    /\ SlotsFilled \in 1..sm.size
    /\ sm.pointer \in 1..sm.size
    /\ sm.pointer <= SlotsFilled
    /\ \A k \in 1..(SlotsFilled - 1) : RingSlot(k) <= RingSlot(k + 1)
    /\ Newest = sm.sum

C37_Witness ==
  /\ Metered
  /\ SlotsFilled = sm.size /\ sm.pointer < sm.size
  /\ 0 < OldestInWindow /\ OldestInWindow < Newest
  /\ sm.sum = MaxSum

\* C38: once the buffer is full, after at least size timer ticks without a
\* call, a call with delta 0 returns 0.
C38_WindowForgets ==
  [][(Metered /\ SlotsFilled = sm.size /\ sm.elapsed >= sm.size)
     => (speed(Num(0)) => sm'.ret = Rat(0, 1))]_vars

\* the text ends with the suffix
EndsWith(text, suffix) ==
  /\ Len(text) >= Len(suffix)
  /\ SubSeq(text, Len(text) - Len(suffix) + 1, Len(text)) = suffix

\* C39: the text a frame shows for {eta} is the eta of the snapshot,
\* remaining / speed in seconds, with one decimal.
C39_EtaInSeconds ==
  (BarLive /\ opts.format = <<FMT_ETA>>)
  => \A text \in Frames : EndsWith(text, " " \o toFixed1(heap[0].eta, 1000))
====
